---------------------------- MODULE Spec2Model ----------------------------
(***************************************************************************)
(* Model of the iteration/revision progress tracker of questfoundry-cli    *)
(* (src/qf/formatting/loop_progress.py) and of its read-only consumers.    *)
(*                                                                         *)
(* Python's Optional[T] is modelled as a sequence of length at most one:   *)
(* None is <<>> and a present value v is <<v>>.  datetime values are       *)
(* natural numbers read from the wall clock `now`; every datetime is       *)
(* truthy, so "if self.start_time" is the test start_time # None.          *)
(* A reference to a Step is the pair <<i, j>>: the j-th step of the i-th   *)
(* iteration; current_iteration is the index of the referenced iteration.  *)
(***************************************************************************)
EXTENDS Integers, Sequences, FiniteSets, TLC

\* ------------------------------------------------------------------ bounds
MaxCalls == 4
MaxTime == 1
MaxIterationNumber == 2

\* ------------------------------------------------------------ input values
StepNames == {"A"}
Agents == {"X"}
IssueLists == {<<"X inconsistent">>}
Decisions == {"Revising step 2"}
LoopName == "Story Spark"

None == <<>>
Some(v) == <<v>>

VARIABLES
    iterations,         \* LoopProgressTracker.iterations
    start_time,         \* LoopProgressTracker.start_time
    current_iteration,  \* LoopProgressTracker.current_iteration (index)
    now,                \* the wall clock read by datetime.now()
    lastOp,             \* name of the last tracker method called
    raised,             \* exception raised by the last call, or "none"
    summary,            \* value returned by get_summary if it was the last call
    prev_summary,       \* value returned by the get_summary call just before it
    blockedRefs,        \* history: Step references block_step was applied to
    startCalls,         \* history: numbers passed to start_iteration
    stepCalls,          \* history: per start_iteration call, steps started in it
    calls,              \* number of tracker method calls made so far
    step,               \* a free-standing Step object (Step.status harness)
    status_out,         \* value read from step.status
    scenario,           \* name of the scripted run being replayed, or "none"
    pc,                 \* position in the scripted run
    name_in,            \* argument of a validate_loop_name call
    name_out,           \* outcome of that call
    catalog,            \* a catalog loaded into LOOPS in place of the packaged one
    cli,                \* one `qf run` invocation: arguments and environment
    run,                \* progress and outcome of that invocation
    session,            \* a live QuickstartSession
    disk,               \* .questfoundry/.quickstart_checkpoint.json, if present
    restored,           \* what load_checkpoint returned, when it was the last call
    saved,              \* history: the session as it was at the last save
    completeLog,        \* history: arguments of the complete_loop calls
    sessionOp           \* name of the last QuickstartSession method called

trackerVars == <<iterations, start_time, current_iteration>>
callVars == <<lastOp, raised, summary, prev_summary, blockedRefs, startCalls,
             stepCalls>>
stepVars == <<step, status_out>>
scriptVars == <<scenario, pc>>
nameVars == <<name_in, name_out, catalog>>
runVars == <<cli, run>>
sessionVars == <<session, disk, restored, saved, completeLog, sessionOp>>
vars == <<iterations, start_time, current_iteration, now, lastOp, raised,
          summary, prev_summary, blockedRefs, startCalls, stepCalls, calls,
          step, status_out, scenario, pc, name_in, name_out, catalog, cli, run,
          session, disk, restored, saved, completeLog, sessionOp>>

\* ------------------------------------------------------------------- Step
Step(name, agent, is_revision, st, et, blocked, issues) ==
    [name |-> name, agent |-> agent, is_revision |-> is_revision,
     start_time |-> st, end_time |-> et, blocked |-> blocked,
     blocking_issues |-> issues]

\* Variant: the end_time test placed ahead of the blocked test.
status_EndTimeFirst(s) ==
    IF s.end_time # None THEN "completed"
    ELSE IF s.blocked THEN "blocked"
    ELSE IF s.start_time # None THEN "running"
    ELSE "pending"

\* Variant: no "pending" fall-through.
status_NoPending(s) ==
    IF s.blocked THEN "blocked"
    ELSE IF s.end_time # None THEN "completed"
    ELSE "running"

status(s) ==
    IF s.blocked THEN "blocked"
    ELSE IF s.end_time # None THEN "completed"
    ELSE IF s.start_time # None THEN "running"
    ELSE "pending"

step_duration(s) ==
    IF s.start_time # None /\ s.end_time # None
    THEN s.end_time[1] - s.start_time[1]
    ELSE 0

\* -------------------------------------------------------------- Iteration
Iteration(n, st) ==
    [iteration_number |-> n, steps |-> <<>>, start_time |-> st,
     end_time |-> None, stabilized |-> FALSE, showrunner_decision |-> None]

\* Variant: an open iteration reports the time elapsed so far.
duration_ToNow(it) ==
    IF it.start_time # None
    THEN (IF it.end_time # None THEN it.end_time[1] ELSE now) - it.start_time[1]
    ELSE 0

duration(it) ==
    IF it.start_time # None /\ it.end_time # None
    THEN it.end_time[1] - it.start_time[1]
    ELSE 0

\* Variant: every step with an end_time counts as completed.
completed_steps_ByEndTime(it) ==
    Cardinality({j \in 1..Len(it.steps) : it.steps[j].end_time # None})

completed_steps(it) ==
    Cardinality({j \in 1..Len(it.steps) : status(it.steps[j]) = "completed"})

blocked_steps(it) ==
    Cardinality({j \in 1..Len(it.steps) : status(it.steps[j]) = "blocked"})

revised_steps(it) ==
    Cardinality({j \in 1..Len(it.steps) : it.steps[j].is_revision})

first_pass_steps(it) ==
    Cardinality({j \in 1..Len(it.steps) : ~it.steps[j].is_revision})

\* ---------------------------------------------------- LoopProgressTracker
RECURSIVE SumLens(_)
SumLens(its) ==
    IF its = <<>> THEN 0 ELSE Len(Head(its).steps) + SumLens(Tail(its))

total_duration ==
    IF start_time # None THEN now - start_time[1] ELSE 0

is_multi_iteration == Len(iterations) > 1

\* Variant: the logical OR over all iterations.
stabilized_AnyIteration ==
    \E i \in 1..Len(iterations) : iterations[i].stabilized

stabilized ==
    IF current_iteration # None
    THEN iterations[current_iteration[1]].stabilized
    ELSE FALSE

iteration_summary(it) ==
    [number |-> it.iteration_number,
     completed_steps |-> completed_steps(it),
     blocked_steps |-> blocked_steps(it),
     revised_steps |-> revised_steps(it),
     first_pass_steps |-> first_pass_steps(it),
     duration |-> duration(it),
     stabilized |-> it.stabilized,
     showrunner_decision |-> it.showrunner_decision]

\* Variant: total_steps counts the current iteration's steps only.
get_summary_CurrentOnly ==
    [loop_name |-> LoopName,
     iteration_count |-> Len(iterations),
     total_steps |-> IF current_iteration # None
                     THEN Len(iterations[current_iteration[1]].steps) ELSE 0,
     total_duration |-> total_duration,
     is_multi_iteration |-> is_multi_iteration,
     stabilized |-> stabilized,
     iterations |-> [i \in 1..Len(iterations) |-> iteration_summary(iterations[i])]]

get_summary ==
    [loop_name |-> LoopName,
     iteration_count |-> Len(iterations),
     total_steps |-> SumLens(iterations),
     total_duration |-> total_duration,
     is_multi_iteration |-> is_multi_iteration,
     stabilized |-> stabilized,
     iterations |-> [i \in 1..Len(iterations) |-> iteration_summary(iterations[i])]]

\* ------------------------------------------- display_efficiency_metrics
RECURSIVE SumRevised(_)
SumRevised(its) ==
    IF its = <<>> THEN 0 ELSE revised_steps(Head(its)) + SumRevised(Tail(its))

\* Python floats are IEEE 754 doubles.  A positive double is a significand
\* of 53 bits, most significant first and leading with 1, and the exponent
\* of its last bit: its value is the significand times 2^exp.  Zero has the
\* empty significand.
Significand == 53

\* The operators on bit sequences below halve their argument at each step.
RECURSIVE Pow2(_)
Pow2(n) ==
    IF n = 0 THEN 1
    ELSE LET h == Pow2(n \div 2)
         IN IF n % 2 = 0 THEN h * h ELSE 2 * h * h

RECURSIVE BitsToNat(_)
BitsToNat(bits) ==
    IF bits = <<>> THEN 0
    ELSE IF Len(bits) = 1 THEN bits[1]
    ELSE LET k == Len(bits) \div 2
             high == BitsToNat(SubSeq(bits, 1, k))
             low == BitsToNat(SubSeq(bits, k + 1, Len(bits)))
         IN high * Pow2(Len(bits) - k) + low

\* The bits of n without leading zeros, n < 2^30.
NatToBits(n) ==
    LET width == CHOOSE w \in 0..30 : n < Pow2(w)
    IN [j \in 1..width |-> (n \div Pow2(width - j)) % 2]

\* bits + 1; one bit longer when every bit was 1
Increment(bits) ==
    IF \A j \in 1..Len(bits) : bits[j] = 1
    THEN <<1>> \o [j \in 1..Len(bits) |-> 0]
    ELSE LET p == CHOOSE j \in 1..Len(bits) :
                      /\ bits[j] = 0
                      /\ \A k \in (j + 1)..Len(bits) : bits[k] = 1
         IN [j \in 1..Len(bits) |->
                IF j < p THEN bits[j] ELSE IF j = p THEN 1 ELSE 0]

\* The double nearest to bits * 2^exp (plus a non-zero part below the last
\* bit when sticky), ties to the even significand.  bits leads with 1 and
\* has at least 53 bits.
RoundToDouble(bits, exp, sticky) ==
    LET keep == SubSeq(bits, 1, Significand)
        drop == SubSeq(bits, Significand + 1, Len(bits))
        guard == drop # <<>> /\ drop[1] = 1
        rest == sticky \/ \E j \in 2..Len(drop) : drop[j] = 1
        up == guard /\ (rest \/ keep[Significand] = 1)
        m == IF up THEN Increment(keep) ELSE keep
    IN IF Len(m) > Significand
       THEN [mant |-> SubSeq(m, 1, Significand), exp |-> exp + Len(drop) + 1]
       ELSE [mant |-> m, exp |-> exp + Len(drop)]

\* The first n >= 1 bits of rem / den after the binary point (rem < den), and
\* what remains.
RECURSIVE DivBits(_, _, _)
DivBits(rem, den, n) ==
    IF n = 1
    THEN [bits |-> <<IF 2 * rem >= den THEN 1 ELSE 0>>,
          rem |-> IF 2 * rem >= den THEN 2 * rem - den ELSE 2 * rem]
    ELSE LET high == DivBits(rem, den, n \div 2)
             low == DivBits(high.rem, den, n - n \div 2)
         IN [bits |-> high.bits \o low.bits, rem |-> low.rem]

\* The doublings of x needed to reach y, and the doublings of y that stay
\* within x.
ShiftUp(x, y) ==
    CHOOSE s \in 0..30 : x * Pow2(s) >= y
Fit(x, y) ==
    CHOOSE t \in 0..30 : 2 * y * Pow2(t) > x

\* a / b on ints a >= 0, b > 0: the double nearest to the quotient.
float_div(a, b) ==
    IF a = 0 THEN [mant |-> <<>>, exp |-> 0]
    ELSE LET s == ShiftUp(a, b)
             num == a * Pow2(s)
             t == Fit(num, b)
             den == b * Pow2(t)
             q == DivBits(num - den, den, Significand)
         IN RoundToDouble(<<1>> \o q.bits, t - s - Significand, q.rem # 0)

\* bits * n + carry as the bits of the same length and the carry out of
\* them, for n and carry below 2^10; at most 20 bits are multiplied at once.
RECURSIVE TimesNat(_, _, _)
TimesNat(bits, n, carry) ==
    IF Len(bits) <= 20
    THEN LET v == BitsToNat(bits) * n + carry
         IN [bits |-> [j \in 1..Len(bits) |-> (v \div Pow2(Len(bits) - j)) % 2],
             carry |-> v \div Pow2(Len(bits))]
    ELSE LET k == Len(bits) \div 2
             low == TimesNat(SubSeq(bits, k + 1, Len(bits)), n, carry)
             high == TimesNat(SubSeq(bits, 1, k), n, low.carry)
         IN [bits |-> high.bits \o low.bits, carry |-> high.carry]

\* x * n on a double x and an int n > 0: the double nearest to the product.
float_mul(x, n) ==
    IF x.mant = <<>> THEN x
    ELSE LET product == TimesNat(x.mant, n, 0)
         IN RoundToDouble(NatToBits(product.carry) \o product.bits, x.exp, FALSE)

\* f"{x:.0f}" on a double below 2^31: the integer nearest to the double's
\* exact value, ties to even, as the number its digits denote.
format_0f(x) ==
    IF x.mant = <<>> THEN 0
    ELSE IF x.exp >= 0 THEN BitsToNat(x.mant) * Pow2(x.exp)
    ELSE LET n == Len(x.mant) + x.exp
         IN IF n < 0 THEN 0
            ELSE LET int == BitsToNat(SubSeq(x.mant, 1, n))
                     frac == SubSeq(x.mant, n + 1, Len(x.mant))
                     guard == frac[1] = 1
                     rest == \E j \in 2..Len(frac) : frac[j] = 1
                 IN IF guard /\ (rest \/ int % 2 = 1) THEN int + 1 ELSE int

\* reused_steps / total_steps * 100, as "{:.0f}" prints it.
efficiency_percent(steps, total_steps) ==
    format_0f(float_mul(float_div(steps, total_steps), 100))

\* Variant: the percentage of revised, not of reused, steps.
display_efficiency_metrics_Revised ==
    IF ~is_multi_iteration \/ Len(iterations) < 2
    THEN None
    ELSE LET total_steps == SumLens(iterations)
             revised == SumRevised(iterations)
             reused_steps == total_steps - revised
         IN Some([total_steps |-> total_steps,
                  revised_steps |-> revised,
                  reused_steps |-> reused_steps,
                  efficiency_percent |->
                      IF total_steps > 0
                      THEN efficiency_percent(revised, total_steps)
                      ELSE 0,
                  raised |-> "none"])

\* Variant: the division is not guarded against total_steps = 0.
display_efficiency_metrics_Unguarded ==
    IF ~is_multi_iteration \/ Len(iterations) < 2
    THEN None
    ELSE LET total_steps == SumLens(iterations)
             revised == SumRevised(iterations)
             reused_steps == total_steps - revised
         IN Some([total_steps |-> total_steps,
                  revised_steps |-> revised,
                  reused_steps |-> reused_steps,
                  efficiency_percent |->
                      IF total_steps > 0
                      THEN efficiency_percent(reused_steps, total_steps)
                      ELSE -1,
                  raised |-> IF total_steps > 0 THEN "none"
                             ELSE "ZeroDivisionError"])

\* The figures of the "Performance" panel; None when nothing is printed.
\* raised is the exception the computation ends with, "none" when it returns.
display_efficiency_metrics ==
    IF ~is_multi_iteration \/ Len(iterations) < 2
    THEN None
    ELSE LET total_steps == SumLens(iterations)
             revised == SumRevised(iterations)
             reused_steps == total_steps - revised
         IN Some([total_steps |-> total_steps,
                  revised_steps |-> revised,
                  reused_steps |-> reused_steps,
                  efficiency_percent |->
                      IF total_steps > 0
                      THEN efficiency_percent(reused_steps, total_steps)
                      ELSE 0,
                  raised |-> "none"])

\* A call of a tracker method other than get_summary: what the caller
\* observes.  Any earlier summary is no longer "the last value returned".
Called(op, exc) ==
    /\ lastOp' = op
    /\ raised' = exc
    /\ summary' = None
    /\ prev_summary' = None

start_loop ==
    /\ start_time' = Some(now)
    /\ Called("start_loop", "none")
    /\ UNCHANGED <<iterations, current_iteration, now, blockedRefs, startCalls,
                   stepCalls>>

\* Variant: the tracker numbers the iterations itself, ignoring its argument.
start_iteration_AssignsNumber(n) ==
    /\ iterations' = Append(iterations, Iteration(Len(iterations) + 1, Some(now)))
    /\ current_iteration' = Some(Len(iterations) + 1)
    /\ Called("start_iteration", "none")
    /\ startCalls' = Append(startCalls, n)
    /\ stepCalls' = Append(stepCalls, 0)
    /\ UNCHANGED <<start_time, now, blockedRefs>>

\* Variant: the new iteration is appended but not made current.
start_iteration_KeepsCurrent(n) ==
    /\ iterations' = Append(iterations, Iteration(n, Some(now)))
    /\ Called("start_iteration", "none")
    /\ startCalls' = Append(startCalls, n)
    /\ stepCalls' = Append(stepCalls, 0)
    /\ UNCHANGED <<start_time, current_iteration, now, blockedRefs>>

start_iteration(n) ==
    /\ iterations' = Append(iterations, Iteration(n, Some(now)))
    /\ current_iteration' = Some(Len(iterations) + 1)
    /\ Called("start_iteration", "none")
    /\ startCalls' = Append(startCalls, n)
    /\ stepCalls' = Append(stepCalls, 0)
    /\ UNCHANGED <<start_time, now, blockedRefs>>

\* Variant: a closed current iteration accepts no further step.
start_step_RejectsClosed(name, agent, is_revision) ==
    IF current_iteration = None
       \/ iterations[current_iteration[1]].end_time # None
    THEN /\ Called("start_step", "RuntimeError")
         /\ UNCHANGED <<iterations, start_time, current_iteration, now,
                        blockedRefs, startCalls, stepCalls>>
    ELSE LET c == current_iteration[1]
             s == Step(name, agent, is_revision, Some(now), None, FALSE, <<>>)
         IN /\ iterations' = [iterations EXCEPT ![c].steps = Append(@, s)]
            /\ Called("start_step", "none")
            /\ stepCalls' = [stepCalls EXCEPT ![c] = @ + 1]
            /\ UNCHANGED <<start_time, current_iteration, now, blockedRefs,
                           startCalls>>

\* Variant: the new step is put in front of the iteration's steps.
start_step_Prepends(name, agent, is_revision) ==
    IF current_iteration = None
    THEN /\ Called("start_step", "RuntimeError")
         /\ UNCHANGED <<iterations, start_time, current_iteration, now,
                        blockedRefs, startCalls, stepCalls>>
    ELSE LET c == current_iteration[1]
             s == Step(name, agent, is_revision, Some(now), None, FALSE, <<>>)
         IN /\ iterations' = [iterations EXCEPT ![c].steps = <<s>> \o @]
            /\ Called("start_step", "none")
            /\ stepCalls' = [stepCalls EXCEPT ![c] = @ + 1]
            /\ UNCHANGED <<start_time, current_iteration, now, blockedRefs,
                           startCalls>>

\* Variant: no guard; a missing iteration is started implicitly.
start_step_NoGuard(name, agent, is_revision) ==
    LET s == Step(name, agent, is_revision, Some(now), None, FALSE, <<>>)
    IN IF current_iteration = None
       THEN /\ iterations' = <<[Iteration(1, Some(now)) EXCEPT !.steps = <<s>>]>>
            /\ current_iteration' = Some(1)
            /\ Called("start_step", "none")
            /\ startCalls' = <<1>>
            /\ stepCalls' = <<1>>
            /\ UNCHANGED <<start_time, now, blockedRefs>>
       ELSE LET c == current_iteration[1]
            IN /\ iterations' = [iterations EXCEPT ![c].steps = Append(@, s)]
               /\ Called("start_step", "none")
               /\ stepCalls' = [stepCalls EXCEPT ![c] = @ + 1]
               /\ UNCHANGED <<start_time, current_iteration, now, blockedRefs,
                              startCalls>>

start_step(name, agent, is_revision) ==
    IF current_iteration = None
    THEN /\ Called("start_step", "RuntimeError")
         /\ UNCHANGED <<iterations, start_time, current_iteration, now,
                        blockedRefs, startCalls, stepCalls>>
    ELSE LET c == current_iteration[1]
             s == Step(name, agent, is_revision, Some(now), None, FALSE, <<>>)
         IN /\ iterations' = [iterations EXCEPT ![c].steps = Append(@, s)]
            /\ Called("start_step", "none")
            /\ stepCalls' = [stepCalls EXCEPT ![c] = @ + 1]
            /\ UNCHANGED <<start_time, current_iteration, now, blockedRefs,
                           startCalls>>

\* Variant: completing a step also clears its blocked flag.
complete_step_ClearsBlocked(i, j) ==
    /\ iterations' = [iterations EXCEPT ![i].steps[j].end_time = Some(now),
                                        ![i].steps[j].blocked = FALSE]
    /\ Called("complete_step", "none")
    /\ UNCHANGED <<start_time, current_iteration, now, blockedRefs,
                   startCalls, stepCalls>>

complete_step(i, j) ==
    /\ iterations' = [iterations EXCEPT ![i].steps[j].end_time = Some(now)]
    /\ Called("complete_step", "none")
    /\ UNCHANGED <<start_time, current_iteration, now, blockedRefs,
                   startCalls, stepCalls>>

\* Variant: a step that already has an end_time is left as it is.
block_step_OnlyRunning(i, j, issues) ==
    /\ IF iterations[i].steps[j].end_time = None
       THEN /\ iterations' = [iterations EXCEPT
                    ![i].steps[j].blocked = TRUE,
                    ![i].steps[j].blocking_issues = issues,
                    ![i].steps[j].end_time = Some(now)]
            /\ blockedRefs' = blockedRefs \cup {<<i, j>>}
       ELSE UNCHANGED <<iterations, blockedRefs>>
    /\ Called("block_step", "none")
    /\ UNCHANGED <<start_time, current_iteration, now, startCalls, stepCalls>>

block_step(i, j, issues) ==
    /\ iterations' = [iterations EXCEPT ![i].steps[j].blocked = TRUE,
                                        ![i].steps[j].blocking_issues = issues,
                                        ![i].steps[j].end_time = Some(now)]
    /\ Called("block_step", "none")
    /\ blockedRefs' = blockedRefs \cup {<<i, j>>}
    /\ UNCHANGED <<start_time, current_iteration, now, startCalls, stepCalls>>

\* Variant: the decision is written on every iteration started so far.
record_showrunner_decision_AllIterations(decision) ==
    /\ IF current_iteration # None
       THEN iterations' = [i \in 1..Len(iterations) |->
                [iterations[i] EXCEPT !.showrunner_decision = Some(decision)]]
       ELSE UNCHANGED iterations
    /\ Called("record_showrunner_decision", "none")
    /\ UNCHANGED <<start_time, current_iteration, now, blockedRefs,
                   startCalls, stepCalls>>

record_showrunner_decision(decision) ==
    /\ IF current_iteration # None
       THEN iterations' = [iterations EXCEPT
                ![current_iteration[1]].showrunner_decision = Some(decision)]
       ELSE UNCHANGED iterations
    /\ Called("record_showrunner_decision", "none")
    /\ UNCHANGED <<start_time, current_iteration, now, blockedRefs,
                   startCalls, stepCalls>>

\* Variant: every iteration started so far is closed, not only the current one.
complete_iteration_ClosesAll ==
    /\ IF current_iteration # None
       THEN iterations' = [i \in 1..Len(iterations) |->
                               [iterations[i] EXCEPT !.end_time = Some(now)]]
       ELSE UNCHANGED iterations
    /\ Called("complete_iteration", "none")
    /\ UNCHANGED <<start_time, current_iteration, now, blockedRefs,
                   startCalls, stepCalls>>

\* Variant: completing the iteration also drops the current_iteration pointer.
complete_iteration_ClearsCurrent ==
    /\ IF current_iteration # None
       THEN iterations' = [iterations EXCEPT
                ![current_iteration[1]].end_time = Some(now)]
       ELSE UNCHANGED iterations
    /\ current_iteration' = None
    /\ Called("complete_iteration", "none")
    /\ UNCHANGED <<start_time, now, blockedRefs, startCalls, stepCalls>>

complete_iteration ==
    /\ IF current_iteration # None
       THEN iterations' = [iterations EXCEPT
                ![current_iteration[1]].end_time = Some(now)]
       ELSE UNCHANGED iterations
    /\ Called("complete_iteration", "none")
    /\ UNCHANGED <<start_time, current_iteration, now, blockedRefs,
                   startCalls, stepCalls>>

\* Variant: the stabilized flag is set without closing the iteration.
mark_stabilized_KeepsOpen ==
    /\ IF current_iteration # None
       THEN iterations' = [iterations EXCEPT
                ![current_iteration[1]].stabilized = TRUE]
       ELSE UNCHANGED iterations
    /\ Called("mark_stabilized", "none")
    /\ UNCHANGED <<start_time, current_iteration, now, blockedRefs,
                   startCalls, stepCalls>>

mark_stabilized ==
    /\ IF current_iteration # None
       THEN iterations' = [iterations EXCEPT
                ![current_iteration[1]].stabilized = TRUE,
                ![current_iteration[1]].end_time = Some(now)]
       ELSE UNCHANGED iterations
    /\ Called("mark_stabilized", "none")
    /\ UNCHANGED <<start_time, current_iteration, now, blockedRefs,
                   startCalls, stepCalls>>

call_get_summary ==
    /\ summary' = Some(get_summary)
    /\ prev_summary' = summary
    /\ lastOp' = "get_summary"
    /\ raised' = "none"
    /\ UNCHANGED <<iterations, start_time, current_iteration, now,
                   blockedRefs, startCalls, stepCalls>>

\* The wall clock advances between any two calls.
Tick ==
    /\ now < MaxTime
    /\ now' = now + 1
    /\ UNCHANGED <<trackerVars, callVars, calls, stepVars, scriptVars,
                   nameVars, runVars, sessionVars>>

\* -------------------------------------------- specification of the tracker
\* The Step objects start_step has returned so far.
StepRefs == UNION {{<<i, j>> : j \in 1..Len(iterations[i].steps)} :
                       i \in 1..Len(iterations)}

TrackerInit ==
    /\ iterations = <<>>
    /\ start_time = None
    /\ current_iteration = None
    /\ now = 0
    /\ lastOp = "init"
    /\ raised = "none"
    /\ summary = None
    /\ prev_summary = None
    /\ blockedRefs = {}
    /\ startCalls = <<>>
    /\ stepCalls = <<>>

\* No tracker in use: neither the call harness, the Step harness nor a script.
NoTracker ==
    /\ TrackerInit
    /\ calls = 0
    /\ step = None
    /\ status_out = None
    /\ scenario = "none"
    /\ pc = 0

NoName ==
    /\ name_in = None
    /\ name_out = None
    /\ catalog = None

NoRun ==
    /\ cli = None
    /\ run = None

NoSession ==
    /\ session = None
    /\ disk = None
    /\ restored = None
    /\ saved = None
    /\ completeLog = <<>>
    /\ sessionOp = "none"

\* No validate_loop_name call, no run invocation and no quickstart session.
NoCommand == NoName /\ NoRun /\ NoSession

Init ==
    /\ TrackerInit
    /\ NoCommand
    /\ step = None
    /\ status_out = None
    /\ calls = 0
    /\ scenario = "none"
    /\ pc = 0

\* One more method call by the tracker's client, within the budget of a run.
Call ==
    /\ calls < MaxCalls
    /\ calls' = calls + 1
    /\ UNCHANGED <<stepVars, scriptVars, nameVars, runVars, sessionVars>>

StartLoop == start_loop /\ Call

StartIteration ==
    /\ \E n \in 1..MaxIterationNumber : start_iteration(n)
    /\ Call

StartStep ==
    /\ \E name \in StepNames, agent \in Agents, rev \in BOOLEAN :
           start_step(name, agent, rev)
    /\ Call

CompleteStep ==
    /\ \E r \in StepRefs : complete_step(r[1], r[2])
    /\ Call

BlockStep ==
    /\ \E r \in StepRefs, issues \in IssueLists : block_step(r[1], r[2], issues)
    /\ Call

RecordShowrunnerDecision ==
    /\ \E d \in Decisions : record_showrunner_decision(d)
    /\ Call

CompleteIteration == complete_iteration /\ Call

MarkStabilized == mark_stabilized /\ Call

GetSummary == call_get_summary /\ Call

Next ==
    \/ Tick
    \/ StartLoop
    \/ StartIteration
    \/ StartStep
    \/ CompleteStep
    \/ BlockStep
    \/ RecordShowrunnerDecision
    \/ CompleteIteration
    \/ MarkStabilized
    \/ GetSummary

Spec == Init /\ [][Next]_vars

\* ------------------------------------- specification of Step.status alone
\* Step is a plain dataclass: a caller may build one with any field values.
OptTimes == {None} \cup {Some(t) : t \in 0..MaxTime}

StepObjects ==
    {Step(n, a, r, st, et, b, is) :
        n \in StepNames, a \in Agents, r \in BOOLEAN, st \in OptTimes,
        et \in OptTimes, b \in BOOLEAN, is \in {<<>>} \cup IssueLists}

InitStep ==
    /\ TrackerInit
    /\ NoCommand
    /\ step \in {Some(s) : s \in StepObjects}
    /\ status_out = None
    /\ calls = 0
    /\ scenario = "none"
    /\ pc = 0

ReadStatus ==
    /\ step # None
    /\ status_out = None
    /\ status_out' = Some(status(step[1]))
    /\ UNCHANGED <<trackerVars, callVars, now, calls, step, scriptVars,
                   nameVars, runVars, sessionVars>>

NextStep == ReadStatus

SpecStep == InitStep /\ [][NextStep]_vars

\* ------------------------------------------ specification of scripted runs
\* The calls of test_single_iteration_execution.
SingleCleanPass ==
    << [op |-> "start_loop"],
       [op |-> "start_iteration", n |-> 1],
       [op |-> "start_step", name |-> "Analysis", agent |-> "Lore Weaver",
        is_revision |-> FALSE],
       [op |-> "complete_step", i |-> 1, j |-> 1],
       [op |-> "mark_stabilized"],
       [op |-> "complete_iteration"] >>

\* The calls of test_multi_iteration_execution: the decision is recorded
\* after complete_iteration, and the second iteration starts two revision
\* steps and one first-pass step.
MultiIterationExecution ==
    << [op |-> "start_loop"],
       [op |-> "start_iteration", n |-> 1],
       [op |-> "start_step", name |-> "Step 1", agent |-> "Agent A",
        is_revision |-> FALSE],
       [op |-> "complete_step", i |-> 1, j |-> 1],
       [op |-> "start_step", name |-> "Step 2", agent |-> "Agent B",
        is_revision |-> FALSE],
       [op |-> "complete_step", i |-> 1, j |-> 2],
       [op |-> "start_step", name |-> "Step 3", agent |-> "Agent C",
        is_revision |-> FALSE],
       [op |-> "block_step", i |-> 1, j |-> 3, issues |-> <<"Quality issue found">>],
       [op |-> "complete_iteration"],
       [op |-> "record_showrunner_decision", decision |-> "Revising steps 1-2"],
       [op |-> "start_iteration", n |-> 2],
       [op |-> "start_step", name |-> "Step 1 (revised)", agent |-> "Agent A",
        is_revision |-> TRUE],
       [op |-> "complete_step", i |-> 2, j |-> 1],
       [op |-> "start_step", name |-> "Step 2 (revised)", agent |-> "Agent B",
        is_revision |-> TRUE],
       [op |-> "complete_step", i |-> 2, j |-> 2],
       [op |-> "start_step", name |-> "Step 3", agent |-> "Agent C",
        is_revision |-> FALSE],
       [op |-> "complete_step", i |-> 2, j |-> 3],
       [op |-> "mark_stabilized"],
       [op |-> "complete_iteration"] >>

\* The block-then-revise run: iteration 1 completes two steps and blocks a
\* third, a decision is recorded and the iteration completed; iteration 2
\* completes one revision step and one first-pass step and stabilizes.
BlockThenRevise ==
    << [op |-> "start_loop"],
       [op |-> "start_iteration", n |-> 1],
       [op |-> "start_step", name |-> "Step 1", agent |-> "X", is_revision |-> FALSE],
       [op |-> "complete_step", i |-> 1, j |-> 1],
       [op |-> "start_step", name |-> "Step 2", agent |-> "X", is_revision |-> FALSE],
       [op |-> "complete_step", i |-> 1, j |-> 2],
       [op |-> "start_step", name |-> "Step 3", agent |-> "X", is_revision |-> FALSE],
       [op |-> "block_step", i |-> 1, j |-> 3, issues |-> <<"X inconsistent">>],
       [op |-> "record_showrunner_decision", decision |-> "Revising step 2"],
       [op |-> "complete_iteration"],
       [op |-> "start_iteration", n |-> 2],
       [op |-> "start_step", name |-> "Step 2 (revised)", agent |-> "X", is_revision |-> TRUE],
       [op |-> "complete_step", i |-> 2, j |-> 1],
       [op |-> "start_step", name |-> "Step 3", agent |-> "X", is_revision |-> FALSE],
       [op |-> "complete_step", i |-> 2, j |-> 2],
       [op |-> "mark_stabilized"],
       [op |-> "complete_iteration"] >>

Script ==
    IF scenario = "single_clean_pass" THEN SingleCleanPass
    ELSE IF scenario = "block_then_revise" THEN BlockThenRevise
    ELSE IF scenario = "multi_iteration_execution" THEN MultiIterationExecution
    ELSE <<>>

Apply(o) ==
    CASE o.op = "start_loop" -> start_loop
      [] o.op = "start_iteration" -> start_iteration(o.n)
      [] o.op = "start_step" -> start_step(o.name, o.agent, o.is_revision)
      [] o.op = "complete_step" -> complete_step(o.i, o.j)
      [] o.op = "block_step" -> block_step(o.i, o.j, o.issues)
      [] o.op = "record_showrunner_decision" -> record_showrunner_decision(o.decision)
      [] o.op = "complete_iteration" -> complete_iteration
      [] o.op = "mark_stabilized" -> mark_stabilized

ScriptDone == scenario # "none" /\ pc > Len(Script)

InitScript ==
    /\ TrackerInit
    /\ NoCommand
    /\ step = None
    /\ status_out = None
    /\ calls = 0
    /\ scenario \in {"single_clean_pass", "block_then_revise",
                     "multi_iteration_execution"}
    /\ pc = 1

ScriptStep ==
    /\ pc <= Len(Script)
    /\ Apply(Script[pc])
    /\ pc' = pc + 1
    /\ calls' = calls + 1
    /\ UNCHANGED <<scenario, stepVars, nameVars, runVars, sessionVars>>

NextScript == Tick \/ ScriptStep

\* What test_multi_iteration_execution asserts once its calls are made.
test_multi_iteration_execution ==
    (scenario = "multi_iteration_execution" /\ ScriptDone) =>
        /\ is_multi_iteration
        /\ Len(iterations) = 2
        /\ stabilized
        /\ blocked_steps(iterations[1]) = 1
        /\ revised_steps(iterations[2]) = 2

SpecScript == InitScript /\ [][NextScript]_vars

\* ============================================================ loop catalog
\* Strings the name validator inspects are sequences of one-character
\* strings, so that lower(), strip() and replace() act character by character.
MaxNameLen == 4
Chars == {"s", "S", "t", "T", " ", "-"}

RECURSIVE StringsUpTo(_)
StringsUpTo(n) ==
    IF n = 0 THEN {<<>>}
    ELSE LET shorter == StringsUpTo(n - 1)
         IN shorter \cup {Append(w, c) : w \in {x \in shorter : Len(x) = n - 1},
                                          c \in Chars}

\* str.lower()
lower_char(c) == IF c = "S" THEN "s" ELSE IF c = "T" THEN "t" ELSE c
lower(str) == [i \in 1..Len(str) |-> lower_char(str[i])]

\* str.strip(): leading and trailing whitespace removed
RECURSIVE lstrip(_)
lstrip(str) ==
    IF str # <<>> /\ Head(str) = " " THEN lstrip(Tail(str)) ELSE str
RECURSIVE rstrip(_)
rstrip(str) ==
    IF str # <<>> /\ str[Len(str)] = " "
    THEN rstrip(SubSeq(str, 1, Len(str) - 1)) ELSE str
strip(str) == rstrip(lstrip(str))

\* str.replace(" ", "-")
replace_space_hyphen(str) ==
    [i \in 1..Len(str) |-> IF str[i] = " " THEN "-" ELSE str[i]]

\* The catalog, in file order: id -> display_name.  Three entries stand for
\* the shapes the catalog holds: a two-word loop whose id is its display name
\* in kebab-case ("s-s" / "S S", as story-spark / Story Spark), a loop whose
\* display name carries a hyphen its id lacks ("tt" / "T-t"), and a one-word
\* loop ("t" / "T", as gatecheck / Gatecheck).
LOOPS ==
    << [id |-> <<"s", "-", "s">>, display_name |-> <<"S", " ", "S">>],
       [id |-> <<"t", "t">>,      display_name |-> <<"T", "-", "t">>],
       [id |-> <<"t">>,           display_name |-> <<"T">>] >>

LoopIds == {LOOPS[k].id : k \in 1..Len(LOOPS)}
STORY_SPARK == LOOPS[1].id

\* validate_loop_name: the id it returns, or the exit status it raises with
\* after printing the ids of the catalog listing.
Resolved(loop_id) == [returned |-> Some(loop_id), exit_code |-> None, listing |-> <<>>]
UnknownLoop(ids) == [returned |-> None, exit_code |-> Some(1), listing |-> ids]

validate_loop_name_NoDisplayName(loop_name) ==
    LET normalized == replace_space_hyphen(strip(lower(loop_name)))
    IN IF normalized \in LoopIds THEN Resolved(normalized)
       ELSE UnknownLoop([k \in 1..Len(LOOPS) |-> LOOPS[k].id])

validate_loop_name_ShortListing(loop_name) ==
    LET normalized == replace_space_hyphen(strip(lower(loop_name)))
        matches == {k \in 1..Len(LOOPS) :
                        lower(LOOPS[k].display_name) = lower(loop_name)}
    IN IF normalized \in LoopIds THEN Resolved(normalized)
       ELSE IF matches # {}
            THEN Resolved(LOOPS[CHOOSE k \in matches : \A m \in matches : k <= m].id)
            ELSE UnknownLoop([k \in 1..(Len(LOOPS) - 1) |-> LOOPS[k].id])

validate_loop_name(loop_name) ==
    LET normalized == replace_space_hyphen(strip(lower(loop_name)))
        matches == {k \in 1..Len(LOOPS) :
                        lower(LOOPS[k].display_name) = lower(loop_name)}
    IN IF normalized \in LoopIds THEN Resolved(normalized)
       ELSE IF matches # {}
            THEN Resolved(LOOPS[CHOOSE k \in matches : \A m \in matches : k <= m].id)
            ELSE UnknownLoop([k \in 1..Len(LOOPS) |-> LOOPS[k].id])

\* One call of validate_loop_name on an arbitrary string.
InitName ==
    /\ NoTracker
    /\ NoRun
    /\ NoSession
    /\ name_in \in {Some(w) : w \in StringsUpTo(MaxNameLen)}
    /\ name_out = None
    /\ catalog = None

ValidateLoopName ==
    /\ catalog = None
    /\ name_out = None
    /\ name_out' = Some(validate_loop_name(name_in[1]))
    /\ UNCHANGED <<trackerVars, callVars, now, calls, stepVars, scriptVars,
                   name_in, catalog, runVars, sessionVars>>

NextName == ValidateLoopName
SpecName == InitName /\ [][NextName]_vars

\* ------------------------------------------- name resolution, any catalog
\* validate_loop_name reads the module global LOOPS, which holds whatever the
\* catalog file defined.  A catalog in which display names collide with ids of
\* other loops and with each other, in both file orders, shows the order in
\* which the two matches are tried.
CollidingLoops ==
    << [id |-> <<"t">>,      display_name |-> <<"S">>],
       [id |-> <<"s">>,      display_name |-> <<"T">>],
       [id |-> <<"t", "t">>, display_name |-> <<"S", " ", "T">>],
       [id |-> <<"s", "s">>, display_name |-> <<"s", " ", "t">>] >>

Reverse(seq) == [k \in 1..Len(seq) |-> seq[Len(seq) + 1 - k]]

Catalogs == {LOOPS, CollidingLoops, Reverse(CollidingLoops)}

\* Variant: the display names are tried before the normalised id.
validate_loop_name_in_DisplayFirst(loops, loop_name) ==
    LET normalized == replace_space_hyphen(strip(lower(loop_name)))
        matches == {k \in 1..Len(loops) :
                        lower(loops[k].display_name) = lower(loop_name)}
    IN IF matches # {}
       THEN Resolved(loops[CHOOSE k \in matches : \A m \in matches : k <= m].id)
       ELSE IF normalized \in {loops[k].id : k \in 1..Len(loops)}
            THEN Resolved(normalized)
            ELSE UnknownLoop([k \in 1..Len(loops) |-> loops[k].id])

\* validate_loop_name with LOOPS holding the catalog loops.
validate_loop_name_in(loops, loop_name) ==
    LET normalized == replace_space_hyphen(strip(lower(loop_name)))
        matches == {k \in 1..Len(loops) :
                        lower(loops[k].display_name) = lower(loop_name)}
    IN IF normalized \in {loops[k].id : k \in 1..Len(loops)}
       THEN Resolved(normalized)
       ELSE IF matches # {}
            THEN Resolved(loops[CHOOSE k \in matches : \A m \in matches : k <= m].id)
            ELSE UnknownLoop([k \in 1..Len(loops) |-> loops[k].id])

InitCatalog ==
    /\ NoTracker
    /\ NoRun
    /\ NoSession
    /\ catalog \in {Some(loops) : loops \in Catalogs}
    /\ name_in \in {Some(w) : w \in StringsUpTo(MaxNameLen)}
    /\ name_out = None

ValidateLoopNameIn ==
    /\ catalog # None
    /\ name_out = None
    /\ name_out' = Some(validate_loop_name_in(catalog[1], name_in[1]))
    /\ UNCHANGED <<trackerVars, callVars, now, calls, stepVars, scriptVars,
                   name_in, catalog, runVars, sessionVars>>

NextCatalog == ValidateLoopNameIn
SpecCatalog == InitCatalog /\ [][NextCatalog]_vars

\* ============================================================== run command
\* Seed texts, as character sequences: empty, blank, and with surrounding
\* whitespace that strip() removes.
SeedTexts == {<<>>, <<" ">>, <<"s">>, <<" ", "t", " ">>}

\* Variant: only None is falsy.
truthy_NotNone(opt) == opt # None

\* Truthiness of an optional string: None and "" are falsy.
truthy(opt) == opt # None /\ opt[1] # <<>>

\* validate_story_spark_seed: QUESTFOUNDRY_SEED when set and non-empty, else the
\* stripped content of .questfoundry/seed.txt when the file exists, else None.
validate_story_spark_seed(env_seed, seed_file) ==
    IF truthy(env_seed) THEN env_seed
    ELSE IF seed_file # None THEN Some(strip(seed_file[1]))
    ELSE None

\* Outcome of one invocation: the precondition checks evaluated, in order, the
\* message reported, the exit code, the calls of validate_story_spark_seed
\* and of execute_loop_with_orchestrator, the library calls the latter made,
\* in order, and the seed orchestrator.execute_loop received.
Outcome(checks, message, exit_code) ==
    [checks |-> checks, message |-> message, exit_code |-> exit_code,
     listing |-> <<>>, loop_id |-> None, story_seed |-> None,
     seed_reads |-> 0, executed |-> FALSE, execute_calls |-> 0,
     delegated |-> <<>>, config_seed |-> None]

\* The library calls of execute_loop_with_orchestrator, in the order it makes
\* them; each of them may raise, and what it raises is raised again.
ExecStages == <<"WorkspaceManager", "get_project_info", "Orchestrator", "execute_loop">>
StageOf(name) == CHOOSE k \in 1..Len(ExecStages) : ExecStages[k] = name

\* execute_loop_with_orchestrator: the library calls it makes up to the one
\* that raises, the seed it reads anew between get_project_info and
\* Orchestrator, and the seed in the configuration orchestrator.execute_loop
\* receives (none when that call is not reached).
execute_loop_with_orchestrator(c, loop_id) ==
    LET reached == IF c.raises_at = "none" THEN Len(ExecStages)
                   ELSE StageOf(c.raises_at)
        config_built == reached >= StageOf("Orchestrator")
        seed == validate_story_spark_seed(c.env_seed_at_execute,
                                          c.seed_file_at_execute)
    IN [raised |-> c.raises_at # "none",
        delegated |-> SubSeq(ExecStages, 1, reached),
        seed_reads |-> IF config_built /\ loop_id = STORY_SPARK THEN 1 ELSE 0,
        config_seed |-> IF reached = StageOf("execute_loop")
                           /\ loop_id = STORY_SPARK /\ truthy(seed)
                        THEN seed ELSE None]

\* Variant: a failed execution is attempted a second time before giving up.
Execute_RetriesOnError(c, checks, loop_id, story_seed) ==
    LET e == execute_loop_with_orchestrator(c, loop_id)
    IN [Outcome(checks,
                IF e.raised THEN "Error executing loop" ELSE "none",
                IF e.raised THEN 1 ELSE 0)
           EXCEPT !.loop_id = Some(loop_id),
                  !.story_seed = story_seed,
                  !.seed_reads = (IF loop_id = STORY_SPARK THEN 1 ELSE 0)
                                 + (IF e.raised THEN 2 ELSE 1) * e.seed_reads,
                  !.executed = TRUE,
                  !.execute_calls = IF e.raised THEN 2 ELSE 1,
                  !.delegated = IF e.raised THEN e.delegated \o e.delegated
                                ELSE e.delegated,
                  !.config_seed = e.config_seed]

\* _run with every precondition passed: the delegated execution, called once
\* inside try/except; an exception is reported and ends the command with 1.
Execute(c, checks, loop_id, story_seed) ==
    LET e == execute_loop_with_orchestrator(c, loop_id)
    IN [Outcome(checks,
                IF e.raised THEN "Error executing loop" ELSE "none",
                IF e.raised THEN 1 ELSE 0)
           EXCEPT !.loop_id = Some(loop_id),
                  !.story_seed = story_seed,
                  !.seed_reads = (IF loop_id = STORY_SPARK THEN 1 ELSE 0)
                                 + e.seed_reads,
                  !.executed = TRUE,
                  !.execute_calls = 1,
                  !.delegated = e.delegated,
                  !.config_seed = e.config_seed]

_run_LoopBeforeProject(c) ==
    LET v == validate_loop_name(c.loop_name)
    IN IF v.returned = None
       THEN [Outcome(<<"loop">>, "Unknown loop", 1) EXCEPT !.listing = v.listing]
       ELSE IF ~c.project_file
       THEN Outcome(<<"loop", "project">>, "No project found", 1)
       ELSE IF ~c.workspace
       THEN Outcome(<<"loop", "project", "workspace">>, "Workspace not found", 1)
       ELSE IF v.returned[1] = STORY_SPARK
       THEN LET story_seed == validate_story_spark_seed(c.env_seed, c.seed_file)
            IN IF ~truthy(story_seed)
               THEN [Outcome(<<"loop", "project", "workspace", "seed">>,
                             "Story Spark requires a seed", 1)
                        EXCEPT !.seed_reads = 1]
               ELSE Execute(c, <<"loop", "project", "workspace", "seed">>,
                            v.returned[1], story_seed)
       ELSE Execute(c, <<"loop", "project", "workspace">>, v.returned[1], None)

_run_ExecErrorIgnored(c) ==
    LET v == validate_loop_name(c.loop_name)
    IN IF ~c.project_file
       THEN Outcome(<<"project">>, "No project found", 1)
       ELSE IF v.returned = None
       THEN [Outcome(<<"project", "loop">>, "Unknown loop", 1)
                EXCEPT !.listing = v.listing]
       ELSE IF ~c.workspace
       THEN Outcome(<<"project", "loop", "workspace">>, "Workspace not found", 1)
       ELSE IF v.returned[1] = STORY_SPARK
       THEN LET story_seed == validate_story_spark_seed(c.env_seed, c.seed_file)
            IN IF ~truthy(story_seed)
               THEN [Outcome(<<"project", "loop", "workspace", "seed">>,
                             "Story Spark requires a seed", 1)
                        EXCEPT !.seed_reads = 1]
               ELSE [Execute(c, <<"project", "loop", "workspace", "seed">>,
                             v.returned[1], story_seed) EXCEPT !.exit_code = 0]
       ELSE [Execute(c, <<"project", "loop", "workspace">>, v.returned[1], None)
                EXCEPT !.exit_code = 0]

_run(c) ==
    LET v == validate_loop_name(c.loop_name)
    IN IF ~c.project_file
       THEN Outcome(<<"project">>, "No project found", 1)
       ELSE IF v.returned = None
       THEN [Outcome(<<"project", "loop">>, "Unknown loop", 1)
                EXCEPT !.listing = v.listing]
       ELSE IF ~c.workspace
       THEN Outcome(<<"project", "loop", "workspace">>, "Workspace not found", 1)
       ELSE IF v.returned[1] = STORY_SPARK
       THEN LET story_seed == validate_story_spark_seed(c.env_seed, c.seed_file)
            IN IF ~truthy(story_seed)
               THEN [Outcome(<<"project", "loop", "workspace", "seed">>,
                             "Story Spark requires a seed", 1)
                        EXCEPT !.seed_reads = 1]
               ELSE Execute(c, <<"project", "loop", "workspace", "seed">>,
                            v.returned[1], story_seed)
       ELSE Execute(c, <<"project", "loop", "workspace">>, v.returned[1], None)

\* The run command: it declares the loop_name argument and --interactive only,
\* so a command line carrying a seed option is refused with a usage error
\* before _run is entered.
run_command(c) ==
    IF c.seed_flag # None THEN Outcome(<<>>, "No such option", 2) ELSE _run(c)

\* Loop names given on the command line: the catalog's ids and display names
\* and every string of at most one character.
RunNames ==
    LoopIds \cup {LOOPS[k].display_name : k \in 1..Len(LOOPS)} \cup StringsUpTo(1)

\* The environment variable and the seed file when the seed is read the
\* second time, inside execute_loop_with_orchestrator: as they were at the
\* first read, or both gone, or the variable set anew in the meantime.
SeedSetAnew == <<"t">>
LaterSeedSources(env_seed, seed_file) ==
    {<<env_seed, seed_file>>, <<None, None>>, <<Some(SeedSetAnew), seed_file>>}

\* Command lines and the environments they run in.  .questfoundry/seed.txt
\* exists only inside an existing workspace; raises_at names the library call
\* of the delegated execution that raises, if any.
Invocations ==
    {c \in [loop_name : RunNames, interactive : BOOLEAN,
            seed_flag : {None, Some(<<"t">>)},
            project_file : BOOLEAN, workspace : BOOLEAN,
            env_seed : {None} \cup {Some(t) : t \in SeedTexts},
            seed_file : {None} \cup {Some(t) : t \in SeedTexts},
            env_seed_at_execute :
                {None} \cup {Some(t) : t \in SeedTexts \cup {SeedSetAnew}},
            seed_file_at_execute : {None} \cup {Some(t) : t \in SeedTexts},
            raises_at : {"none"} \cup {ExecStages[k] : k \in 1..Len(ExecStages)}] :
        /\ c.seed_file # None => c.workspace
        /\ <<c.env_seed_at_execute, c.seed_file_at_execute>>
               \in LaterSeedSources(c.env_seed, c.seed_file)}

InitRun ==
    /\ NoTracker
    /\ NoName
    /\ NoSession
    /\ cli \in {Some(c) : c \in Invocations}
    /\ run = None

Run ==
    /\ cli # None
    /\ run = None
    /\ run' = Some(run_command(cli[1]))
    /\ UNCHANGED <<trackerVars, callVars, now, calls, stepVars, scriptVars,
                   nameVars, cli, sessionVars>>

NextRun == Run
SpecRun == InitRun /\ [][NextRun]_vars

\* ======================================================= quickstart session
MaxSessionCalls == 7
SessionLoops == {"hook-harvest", "lore-deepening"}
ProjectInputs ==
    { [name |-> "quest", premise |-> "a heist", tone |-> "noir", length |-> "short"],
      [name |-> "saga", premise |-> "", tone |-> "epic", length |-> "long"] }

\* QuickstartSession.__init__
QuickstartSession ==
    [project_name |-> "", project_file |-> None, workspace_dir |-> None,
     premise |-> "", tone |-> "", length |-> "",
     completed_loops |-> <<>>, current_loop |-> None,
     interactive_mode |-> FALSE, start_time |-> now]

\* create_project; ok is false when creating the workspace raises, in which
\* case the paths stay unset.
create_project(self, p, ok) ==
    LET named == [self EXCEPT !.project_name = p.name, !.premise = p.premise,
                              !.tone = p.tone, !.length = p.length]
    IN IF ok
       THEN [named EXCEPT !.project_file = Some(<<p.name, ".qfproj">>),
                          !.workspace_dir = Some(".questfoundry")]
       ELSE named

session_start_loop(self, loop_name) == [self EXCEPT !.current_loop = Some(loop_name)]

Contains(seq, x) == \E j \in 1..Len(seq) : seq[j] = x

complete_loop_AlwaysAppends(self, loop_name) ==
    [self EXCEPT !.completed_loops = Append(@, loop_name), !.current_loop = None]

complete_loop(self, loop_name) ==
    [self EXCEPT !.completed_loops =
                     IF Contains(@, loop_name) THEN @ ELSE Append(@, loop_name),
                 !.current_loop = None]

enable_interactive_mode(self) == [self EXCEPT !.interactive_mode = TRUE]
disable_interactive_mode(self) == [self EXCEPT !.interactive_mode = FALSE]

\* datetime.isoformat() of the clock reading t, t counted in whole seconds
\* from 1970-01-01T00:00:00: "1970-01-01T00:00:07" for t = 7 and
\* "1970-01-02T00:00:00" for t = 86400.
two_digits(n) == IF n < 10 THEN "0" \o ToString(n) ELSE ToString(n)
four_digits(n) ==
    IF n < 10 THEN "000" \o ToString(n)
    ELSE IF n < 100 THEN "00" \o ToString(n)
    ELSE IF n < 1000 THEN "0" \o ToString(n)
    ELSE ToString(n)

\* The calendar date days after 1970-01-01 (proleptic Gregorian calendar),
\* counted in 400-year eras from 0000-03-01.
date_of(days) ==
    LET z == days + 719468
        era == z \div 146097
        doe == z - era * 146097
        yoe == (doe - (doe \div 1460) + (doe \div 36524) - (doe \div 146096)) \div 365
        doy == doe - (365 * yoe + (yoe \div 4) - (yoe \div 100))
        mp == (5 * doy + 2) \div 153
        month == IF mp < 10 THEN mp + 3 ELSE mp - 9
    IN [year |-> yoe + era * 400 + (IF month <= 2 THEN 1 ELSE 0),
        month |-> month,
        day |-> doy - ((153 * mp + 2) \div 5) + 1]

isoformat(t) ==
    LET date == date_of(t \div 86400)
        secs == t % 86400
    IN four_digits(date.year) \o "-" \o two_digits(date.month) \o "-"
          \o two_digits(date.day) \o "T"
          \o two_digits(secs \div 3600) \o ":"
          \o two_digits((secs \div 60) % 60) \o ":"
          \o two_digits(secs % 60)

\* JSON text: an object is a sequence of members, a value is a tagged literal.
json_string(str) == [type |-> "string", text |-> str]
json_null == [type |-> "null"]
json_bool(b) == [type |-> IF b THEN "true" ELSE "false"]
json_array(seq) == [type |-> "array", items |-> [j \in 1..Len(seq) |-> json_string(seq[j])]]
json_optional(opt) == IF opt = None THEN json_null ELSE json_string(opt[1])
member(key, value) == [key |-> key, value |-> value]

\* json.loads on one value
py_value(v) ==
    CASE v.type = "string" -> v.text
      [] v.type = "null" -> None
      [] v.type = "true" -> TRUE
      [] v.type = "false" -> FALSE
      [] v.type = "array" -> [j \in 1..Len(v.items) |-> v.items[j].text]

\* dict.get(key, default) on the object json.loads returns
get(text, key, default) ==
    IF \E j \in 1..Len(text) : text[j].key = key
    THEN py_value(text[CHOOSE j \in 1..Len(text) : text[j].key = key].value)
    ELSE default

\* dict.get(key) on an Optional[str] member: None when the key is missing or
\* holds null
get_optional(text, key) ==
    IF \E j \in 1..Len(text) : text[j].key = key /\ text[j].value.type # "null"
    THEN Some(get(text, key, ""))
    ELSE None

\* save_checkpoint: the file it leaves on disk
save_checkpoint(self, file) ==
    IF self.workspace_dir = None THEN file
    ELSE Some(<< member("project_name", json_string(self.project_name)),
                 member("premise", json_string(self.premise)),
                 member("tone", json_string(self.tone)),
                 member("length", json_string(self.length)),
                 member("completed_loops", json_array(self.completed_loops)),
                 member("current_loop", json_optional(self.current_loop)),
                 member("interactive_mode", json_bool(self.interactive_mode)),
                 member("saved_at", json_string(isoformat(now))) >>)

load_checkpoint_KeepsCurrentLoop(self, file) ==
    IF file = None THEN [ret |-> FALSE, self |-> self]
    ELSE [ret |-> TRUE,
          self |-> [self EXCEPT
              !.project_name = get(file[1], "project_name", ""),
              !.premise = get(file[1], "premise", ""),
              !.tone = get(file[1], "tone", ""),
              !.length = get(file[1], "length", ""),
              !.completed_loops = get(file[1], "completed_loops", <<>>),
              !.interactive_mode = get(file[1], "interactive_mode", FALSE),
              !.workspace_dir = Some(".questfoundry")]]

\* load_checkpoint: the value returned and the session afterwards
load_checkpoint(self, file) ==
    IF file = None THEN [ret |-> FALSE, self |-> self]
    ELSE [ret |-> TRUE,
          self |-> [self EXCEPT
              !.project_name = get(file[1], "project_name", ""),
              !.premise = get(file[1], "premise", ""),
              !.tone = get(file[1], "tone", ""),
              !.length = get(file[1], "length", ""),
              !.completed_loops = get(file[1], "completed_loops", <<>>),
              !.current_loop = get_optional(file[1], "current_loop"),
              !.interactive_mode = get(file[1], "interactive_mode", FALSE),
              !.workspace_dir = Some(".questfoundry")]]

InitSession ==
    /\ NoTracker
    /\ NoName
    /\ NoRun
    /\ session = Some(QuickstartSession)
    /\ disk = None
    /\ restored = None
    /\ saved = None
    /\ completeLog = <<>>
    /\ sessionOp = "init"

\* One call on the session in use: the session and the checkpoint file it
\* leaves, and what it returned when it is load_checkpoint (None otherwise).
SessionCall(op, self, file, returned) ==
    /\ session # None
    /\ calls < MaxSessionCalls
    /\ calls' = calls + 1
    /\ session' = Some(self)
    /\ disk' = file
    /\ sessionOp' = op
    /\ restored' = returned
    /\ UNCHANGED <<trackerVars, callVars, now, stepVars, scriptVars,
                   nameVars, runVars>>

\* session = QuickstartSession(): the program goes on with a new session in
\* the same directory; the checkpoint file stays.
NewSession ==
    /\ session # None
    /\ SessionCall("QuickstartSession", QuickstartSession, disk, None)
    /\ completeLog' = <<>>
    /\ UNCHANGED saved

CreateProject ==
    \E p \in ProjectInputs, ok \in BOOLEAN :
        /\ session # None
        /\ SessionCall("create_project", create_project(session[1], p, ok),
                       disk, None)
        /\ UNCHANGED <<saved, completeLog>>

SessionStartLoop ==
    \E l \in SessionLoops :
        /\ session # None
        /\ SessionCall("start_loop", session_start_loop(session[1], l), disk, None)
        /\ UNCHANGED <<saved, completeLog>>

CompleteLoop ==
    \E l \in SessionLoops :
        /\ session # None
        /\ SessionCall("complete_loop", complete_loop(session[1], l), disk, None)
        /\ completeLog' = Append(completeLog, l)
        /\ UNCHANGED saved

EnableInteractiveMode ==
    /\ session # None
    /\ SessionCall("enable_interactive_mode", enable_interactive_mode(session[1]),
                   disk, None)
    /\ UNCHANGED <<saved, completeLog>>

DisableInteractiveMode ==
    /\ session # None
    /\ SessionCall("disable_interactive_mode", disable_interactive_mode(session[1]),
                   disk, None)
    /\ UNCHANGED <<saved, completeLog>>

SaveCheckpoint ==
    /\ session # None
    /\ SessionCall("save_checkpoint", session[1], save_checkpoint(session[1], disk),
                   None)
    /\ saved' = IF session[1].workspace_dir = None THEN saved ELSE session
    /\ UNCHANGED completeLog

\* load_checkpoint on the session in use, which the program goes on with;
\* the loops the checkpoint lists are the loops completed so far.
LoadCheckpoint ==
    /\ session # None
    /\ LET loaded == load_checkpoint(session[1], disk)
       IN /\ SessionCall("load_checkpoint", loaded.self, disk, Some(loaded.ret))
          /\ completeLog' = IF loaded.ret THEN loaded.self.completed_loops
                            ELSE completeLog
    /\ UNCHANGED saved

NextSession ==
    \/ NewSession
    \/ CreateProject
    \/ SessionStartLoop
    \/ CompleteLoop
    \/ EnableInteractiveMode
    \/ DisableInteractiveMode
    \/ SaveCheckpoint
    \/ LoadCheckpoint

SpecSession == InitSession /\ [][NextSession]_vars

\* ================================================================ claims
At(r) == iterations[r[1]].steps[r[2]]

RECURSIVE SumSeq(_)
SumSeq(q) == IF q = <<>> THEN 0 ELSE Head(q) + SumSeq(Tail(q))

\* C1: Step.status is a function of the step's fields: blocked=true gives
\* "blocked" whatever end_time is; not blocked with start_time set and end_time
\* unset gives "running"; not blocked with both timestamps set gives
\* "completed".  (SpecStep)
C1_StatusDerivation ==
    status_out # None =>
        LET s == step[1]
        IN /\ s.blocked => status_out[1] = "blocked"
           /\ (~s.blocked /\ s.start_time # None /\ s.end_time = None)
                  => status_out[1] = "running"
           /\ (~s.blocked /\ s.start_time # None /\ s.end_time # None)
                  => status_out[1] = "completed"

C1_Witness ==
    /\ status_out = Some("blocked")
    /\ step[1].blocked
    /\ step[1].start_time # None
    /\ step[1].end_time # None

\* C2 as stated: a step with no start_time reports "pending" whatever its
\* blocked flag and end_time are.  (SpecStep)
C2_Original ==
    (status_out # None /\ step[1].start_time = None) => status_out[1] = "pending"

\* C2 as amended: a step with no start_time reports "blocked" when its blocked
\* flag is set, else "completed" when it has an end_time, and "pending" only
\* when it is neither blocked nor has an end_time.  (SpecStep)
C2_NoStartTime ==
    (status_out # None /\ step[1].start_time = None) =>
        status_out[1] = (IF step[1].blocked THEN "blocked"
                         ELSE IF step[1].end_time # None THEN "completed"
                         ELSE "pending")

C2_Witness ==
    /\ status_out = Some("pending")
    /\ step[1].start_time = None
    /\ ~step[1].blocked
    /\ step[1].end_time = None

\* C3: a step block_step has been applied to has status "blocked" in every
\* later state, whatever tracker methods are called afterwards, and is never
\* counted in its iteration's completed_steps.  (Spec)
C3_BlockedStaysBlocked ==
    \A r \in blockedRefs :
        LET it == iterations[r[1]]
        IN /\ status(At(r)) = "blocked"
           /\ completed_steps(it)
                 <= Len(it.steps) - Cardinality({q \in blockedRefs : q[1] = r[1]})

\* The only step of the tracker was blocked and complete_step was then called
\* on it at a later time.
C3_Witness ==
    /\ lastOp = "complete_step"
    /\ SumLens(iterations) = 1
    /\ \E r \in blockedRefs : At(r).end_time = Some(now) /\ now > 0

\* C4: in every tracker state and for every iteration,
\* completed_steps + blocked_steps <= len(steps) and
\* revised_steps + first_pass_steps = len(steps).  (Spec)
C4_IterationCounts ==
    \A i \in 1..Len(iterations) :
        LET it == iterations[i]
        IN /\ completed_steps(it) + blocked_steps(it) <= Len(it.steps)
           /\ revised_steps(it) + first_pass_steps(it) = Len(it.steps)

\* An iteration with one blocked and one running step, one of them a revision.
C4_Witness ==
    \E i \in 1..Len(iterations) :
        LET it == iterations[i]
        IN /\ Len(it.steps) = 2
           /\ blocked_steps(it) = 1
           /\ completed_steps(it) = 0
           /\ revised_steps(it) = 1

\* C5: start_step called while no iteration has been started raises
\* RuntimeError and leaves the tracker unchanged: iterations stays empty,
\* current_iteration stays None, no Step is recorded.  (Spec)
C5_StartStepNeedsIteration ==
    [][(lastOp' = "start_step" /\ calls' # calls /\ current_iteration = None)
          => /\ raised' = "RuntimeError"
             /\ iterations' = <<>>
             /\ current_iteration' = None
             /\ start_time' = start_time]_vars

C5_Witness ==
    /\ lastOp = "start_step"
    /\ raised = "RuntimeError"
    /\ iterations = <<>>
    /\ current_iteration = None

\* C6: the tracker's stabilized flag is the stabilized flag of the most
\* recently started iteration and false when there is none; it is not an OR
\* over the iterations: right after start_iteration it is false.  (Spec)
C6_StabilizedIsCurrent ==
    /\ stabilized = (iterations # <<>> /\ iterations[Len(iterations)].stabilized)
    /\ lastOp = "start_iteration" => ~stabilized

C6_Witness ==
    /\ lastOp = "start_iteration"
    /\ ~stabilized
    /\ \E i \in 1..(Len(iterations) - 1) : iterations[i].stabilized

\* C7 as stated: two get_summary calls with no tracker mutation in between
\* return equal values in every field, total_duration included.  (Spec)
C7_Original ==
    (prev_summary # None /\ summary # None) => summary = prev_summary

SummaryWithoutTotal(sm) == [sm EXCEPT !.total_duration = 0]

\* C7 as amended: two get_summary calls with no tracker mutation in between
\* return values equal in every field other than total_duration (the
\* per-iteration durations included); total_duration is equal as well when
\* start_loop has not been called.  (Spec)
C7_SummaryRepeatable ==
    (prev_summary # None /\ summary # None) =>
        /\ SummaryWithoutTotal(summary[1]) = SummaryWithoutTotal(prev_summary[1])
        /\ start_time = None
             => summary[1].total_duration = prev_summary[1].total_duration

\* Two consecutive summaries of a started loop with an open iteration, taken
\* at different times.
C7_Witness ==
    /\ prev_summary # None
    /\ summary # None
    /\ start_time # None
    /\ iterations # <<>>
    /\ summary[1].total_duration # prev_summary[1].total_duration

\* C8: get_summary reports iteration_count = number of start_iteration calls,
\* total_steps = number of steps started over all iterations,
\* is_multi_iteration = (iteration_count > 1) and one entry per iteration, in
\* start order, carrying the number given to start_iteration; the call
\* changes no tracker state.  (Spec)
C8_SummaryContents ==
    [][(lastOp' = "get_summary" /\ calls' # calls)
          => /\ <<iterations, start_time, current_iteration>>'
                   = <<iterations, start_time, current_iteration>>
             /\ LET sm == summary'[1]
                IN /\ sm.iteration_count = Len(startCalls)
                   /\ sm.total_steps = SumSeq(stepCalls)
                   /\ sm.is_multi_iteration = (sm.iteration_count > 1)
                   /\ Len(sm.iterations) = Len(startCalls)
                   /\ \A i \in 1..Len(startCalls) :
                          sm.iterations[i].number = startCalls[i]]_vars

C8_Witness ==
    /\ lastOp = "get_summary"
    /\ summary # None
    /\ summary[1].iteration_count = 2
    /\ summary[1].is_multi_iteration
    /\ summary[1].total_steps = 1
    /\ Len(iterations[1].steps) = 1
    /\ summary[1].iterations[1].number = 2
    /\ summary[1].iterations[2].number = 1

\* C9: the block-then-revise run ends with 2 iterations,
\* iterations[0].blocked_steps = 1, iterations[1].revised_steps = 1, overall
\* stabilized, total_steps = 5, 1 revised step in total and reuse efficiency
\* 80.  (SpecScript)
C9_BlockThenRevise ==
    (scenario = "block_then_revise" /\ ScriptDone) =>
        /\ Len(iterations) = 2
        /\ blocked_steps(iterations[1]) = 1
        /\ revised_steps(iterations[2]) = 1
        /\ stabilized
        /\ display_efficiency_metrics # None
        /\ display_efficiency_metrics[1].total_steps = 5
        /\ display_efficiency_metrics[1].revised_steps = 1
        /\ display_efficiency_metrics[1].efficiency_percent = 80

C9_Witness ==
    /\ scenario = "block_then_revise"
    /\ ScriptDone
    /\ lastOp = "complete_iteration"
    /\ At(<<1, 3>>).blocking_issues = <<"X inconsistent">>
    /\ iterations[1].showrunner_decision = Some("Revising step 2")

\* C10: the single clean pass ends with is_multi_iteration = false,
\* stabilized = true, iterations[0].completed_steps = 1 and
\* iterations[0].blocked_steps = 0.  (SpecScript)
C10_SingleCleanPass ==
    (scenario = "single_clean_pass" /\ ScriptDone) =>
        /\ ~is_multi_iteration
        /\ stabilized
        /\ completed_steps(iterations[1]) = 1
        /\ blocked_steps(iterations[1]) = 0

C10_Witness ==
    /\ scenario = "single_clean_pass"
    /\ ScriptDone
    /\ lastOp = "complete_iteration"
    /\ Len(iterations) = 1
    /\ iterations[1].end_time # None

\* C11: step-reuse efficiency lies in [0, 100] whenever total_steps > 0, and
\* with total_steps = 0 (two iterations without steps) the computation
\* raises no division error and reports 0.  (Spec)
C11_EfficiencyBounded ==
    display_efficiency_metrics # None =>
        LET m == display_efficiency_metrics[1]
        IN /\ m.raised = "none"
           /\ m.total_steps > 0 =>
                 (m.efficiency_percent >= 0 /\ m.efficiency_percent <= 100)
           /\ m.total_steps = 0 => m.efficiency_percent = 0

C11_Witness ==
    /\ Len(iterations) = 2
    /\ SumLens(iterations) = 0
    /\ display_efficiency_metrics # None
    /\ display_efficiency_metrics[1].efficiency_percent = 0

\* C20: current_iteration is None exactly when iterations is empty and is
\* otherwise the last element of iterations; every start_iteration call
\* appends exactly one iteration, which becomes current.  (Spec)
C20_CurrentIsLast ==
    /\ (current_iteration = None) <=> (iterations = <<>>)
    /\ current_iteration # None => current_iteration[1] = Len(iterations)
    /\ Len(iterations) = Len(startCalls)
    /\ \A i \in 1..Len(iterations) : iterations[i].iteration_number = startCalls[i]

C20_Witness ==
    /\ lastOp = "start_iteration"
    /\ Len(iterations) = 2
    /\ current_iteration = Some(2)
    /\ iterations[1].steps # <<>>

\* One string is the other in some casing.
SameIgnoringCase(a, b) == lower(a) = lower(b)

\* C12: name resolution is total and deterministic: every catalog id resolves
\* to itself, every catalog display name resolves in any casing to its entry's
\* id, an input matching neither an id nor a display name fails with exit
\* status 1 and returns nothing, and the outcome is a function of the input.
\* (SpecName)
C12_NameResolution ==
    name_out # None =>
        LET n == name_in[1]
            out == name_out[1]
        IN /\ (out.returned = None) <=> (out.exit_code = Some(1))
           /\ n \in LoopIds => out.returned = Some(n)
           /\ \A k \in 1..Len(LOOPS) :
                  SameIgnoringCase(n, LOOPS[k].display_name)
                      => out.returned = Some(LOOPS[k].id)
           /\ (/\ replace_space_hyphen(strip(lower(n))) \notin LoopIds
               /\ \A k \in 1..Len(LOOPS) :
                      ~SameIgnoringCase(n, LOOPS[k].display_name))
                  => out.returned = None /\ out.exit_code = Some(1)
           /\ out = validate_loop_name(n)

\* A display name in another casing, which is not an id once normalised.
C12_Witness ==
    /\ name_in = Some(<<"t", "-", "T">>)
    /\ name_out # None
    /\ name_out[1].returned = Some(<<"t", "t">>)

\* C13: when the name matches no catalog id and no display name the call
\* fails and the listing shown holds every id of the catalog.  (SpecName)
C13_ListingComplete ==
    (name_out # None /\ name_out[1].returned = None) =>
        /\ name_out[1].exit_code = Some(1)
        /\ \A id \in LoopIds :
               \E j \in 1..Len(name_out[1].listing) : name_out[1].listing[j] = id

C13_Witness ==
    /\ name_in = Some(<<"s", "-", "t">>)
    /\ name_out # None
    /\ name_out[1].returned = None
    /\ Len(name_out[1].listing) = Len(LOOPS)

\* The precondition checks of the run dispatch, in their fixed order.
CheckOrder == <<"project", "loop", "workspace", "seed">>
IsPrefix(p, q) == Len(p) <= Len(q) /\ p = SubSeq(q, 1, Len(p))

\* The preconditions of an invocation, each stated on the command line and the
\* environment alone.
ProjectExists(c) == c.project_file
LoopKnown(c) ==
    \E k \in 1..Len(LOOPS) :
        \/ replace_space_hyphen(strip(lower(c.loop_name))) = LOOPS[k].id
        \/ SameIgnoringCase(c.loop_name, LOOPS[k].display_name)
IsStorySpark(c) ==
    \/ replace_space_hyphen(strip(lower(c.loop_name))) = STORY_SPARK
    \/ SameIgnoringCase(c.loop_name, LOOPS[1].display_name)
WorkspaceExists(c) == c.workspace
SeedFromEnvThenFile(c) ==
    IF c.env_seed # None /\ c.env_seed # Some(<<>>) THEN c.env_seed
    ELSE IF c.seed_file # None THEN Some(strip(c.seed_file[1]))
    ELSE None
SeedPresent(c) == SeedFromEnvThenFile(c) \notin {None, Some(<<>>)}
Entered(c) == c.seed_flag = None
ExecRaises(c) == c.raises_at # "none"

\* C14: the run dispatch evaluates project exists, loop name valid, workspace
\* exists, seed present (story-spark only) in that order; the first failing
\* check alone fixes the reported error and ends the command, no later check
\* being evaluated and nothing being executed.  (SpecRun)
C14_CheckOrder ==
    (run # None /\ Entered(cli[1])) =>
        LET c == cli[1]
            r == run[1]
        IN /\ IsPrefix(r.checks, CheckOrder)
           /\ ("seed" \in {r.checks[j] : j \in 1..Len(r.checks)}) <=>
                  (ProjectExists(c) /\ LoopKnown(c) /\ WorkspaceExists(c)
                     /\ IsStorySpark(c))
           /\ ~ProjectExists(c) =>
                  /\ r.checks = <<"project">>
                  /\ r.message = "No project found"
                  /\ r.listing = <<>>
                  /\ ~r.executed
           /\ (ProjectExists(c) /\ ~LoopKnown(c)) =>
                  /\ r.checks = <<"project", "loop">>
                  /\ r.message = "Unknown loop"
                  /\ ~r.executed
           /\ (ProjectExists(c) /\ LoopKnown(c) /\ ~WorkspaceExists(c)) =>
                  /\ r.checks = <<"project", "loop", "workspace">>
                  /\ r.message = "Workspace not found"
                  /\ ~r.executed
           /\ (ProjectExists(c) /\ LoopKnown(c) /\ WorkspaceExists(c)
                 /\ IsStorySpark(c) /\ ~SeedPresent(c)) =>
                  /\ r.checks = CheckOrder
                  /\ r.message = "Story Spark requires a seed"
                  /\ ~r.executed

\* No project, an unknown loop name and no workspace: only the project check
\* is reported.
C14_Witness ==
    /\ run # None
    /\ cli[1].seed_flag = None
    /\ ~cli[1].project_file
    /\ ~cli[1].workspace
    /\ cli[1].loop_name = <<"-">>
    /\ run[1].message = "No project found"
    /\ run[1].checks = <<"project">>

\* C15: the exit code of the run dispatch is 0 exactly when every
\* precondition passes and the delegated execution returns; it is 1 on any
\* precondition failure (no project, unknown loop, missing workspace, missing
\* seed for story-spark) and 1 when the delegated execution raises.  (SpecRun)
C15_ExitCode ==
    (run # None /\ Entered(cli[1])) =>
        LET c == cli[1]
            r == run[1]
            passes == /\ ProjectExists(c)
                      /\ LoopKnown(c)
                      /\ WorkspaceExists(c)
                      /\ IsStorySpark(c) => SeedPresent(c)
        IN /\ r.exit_code = 0 <=> (passes /\ ~ExecRaises(c))
           /\ ~passes => r.exit_code = 1 /\ ~r.executed
           /\ (passes /\ ExecRaises(c)) => r.exit_code = 1 /\ r.executed

\* Every precondition passes and the delegated execution raises.
C15_Witness ==
    /\ run # None
    /\ cli[1].seed_flag = None
    /\ ExecRaises(cli[1])
    /\ run[1].executed
    /\ run[1].message = "Error executing loop"
    /\ run[1].exit_code = 1

\* C16 as stated: in an initialised project (project file and workspace
\* present) with no seed configured, running any catalog loop by its id,
\* story-spark included, with or without --interactive, exits with code 0
\* (the delegated execution returning normally).  (SpecRun)
C16_Original ==
    (/\ run # None
     /\ Entered(cli[1])
     /\ cli[1].project_file
     /\ cli[1].workspace
     /\ cli[1].env_seed = None
     /\ cli[1].seed_file = None
     /\ cli[1].loop_name \in LoopIds
     /\ ~ExecRaises(cli[1]))
        => run[1].exit_code = 0

\* The seed the claimed precedence yields: flag, then environment, then file.
SeedFromFlagEnvFile(c) ==
    IF c.seed_flag # None /\ c.seed_flag # Some(<<>>) THEN c.seed_flag
    ELSE SeedFromEnvThenFile(c)

\* C17 as stated: for story-spark the seed is the value of the first source
\* that provides one, in the order CLI flag, environment variable, seed file
\* in the workspace.  (SpecRun)
C17_Original ==
    (/\ run # None
     /\ ProjectExists(cli[1])
     /\ WorkspaceExists(cli[1])
     /\ IsStorySpark(cli[1])
     /\ SeedFromFlagEnvFile(cli[1]) \notin {None, Some(<<>>)})
        => /\ run[1].story_seed = SeedFromFlagEnvFile(cli[1])
           /\ ~ExecRaises(cli[1]) => run[1].exit_code = 0

\* A sequence with every repetition after the first occurrence removed.
RECURSIVE FirstOccurrences(_)
FirstOccurrences(seq) ==
    IF seq = <<>> THEN <<>>
    ELSE LET before == FirstOccurrences(SubSeq(seq, 1, Len(seq) - 1))
             x == seq[Len(seq)]
         IN IF \E j \in 1..Len(before) : before[j] = x THEN before
            ELSE Append(before, x)

\* C18: after any sequence of start_loop and complete_loop calls,
\* completed_loops holds each completed loop name exactly once, in order of
\* first completion, and current_loop is None right after every complete_loop
\* call.  (SpecSession)
C18_CompleteLoopIdempotent ==
    session # None =>
        LET done == session[1].completed_loops
        IN /\ done = FirstOccurrences(completeLog)
           /\ \A i, j \in 1..Len(done) : done[i] = done[j] => i = j
           /\ sessionOp = "complete_loop" => session[1].current_loop = None

\* A loop completed twice, with another one completed and started in between.
C18_Witness ==
    /\ session # None
    /\ sessionOp = "complete_loop"
    /\ completeLog = <<"lore-deepening", "hook-harvest", "lore-deepening">>
    /\ session[1].completed_loops = <<"lore-deepening", "hook-harvest">>

\* The fields a checkpoint carries.
Checkpointed(self) ==
    <<self.project_name, self.premise, self.tone, self.length,
      self.completed_loops, self.current_loop, self.interactive_mode>>

\* C19: for a session whose project has been created, save_checkpoint then
\* load_checkpoint in a fresh QuickstartSession returns True and restores
\* project_name, premise, tone, length, completed_loops (same order),
\* current_loop and interactive_mode as they were at save time;
\* load_checkpoint returns False and changes nothing when there is no
\* checkpoint file.  (SpecSession)
C19_CheckpointRoundTrip ==
    [][sessionOp' = "load_checkpoint" =>
          /\ (saved # None /\ session = Some(QuickstartSession)) =>
                /\ restored' = Some(TRUE)
                /\ Checkpointed(session'[1]) = Checkpointed(saved[1])
          /\ disk = None =>
                /\ restored' = Some(FALSE)
                /\ session' = session]_vars

\* A checkpoint with a completed loop and a loop in progress, loaded into a
\* new session: the project file is not part of the checkpoint.
C19_Witness ==
    /\ sessionOp = "load_checkpoint"
    /\ restored = Some(TRUE)
    /\ session[1].project_name = "quest"
    /\ session[1].project_file = None
    /\ session[1].workspace_dir # None
    /\ session[1].completed_loops = <<"lore-deepening">>
    /\ session[1].current_loop = Some("hook-harvest")
    /\ saved # None
    /\ Checkpointed(session[1]) = Checkpointed(saved[1])

StrictlyIncreasing(q) == \A i, j \in 1..Len(q) : i < j => q[i] < q[j]
IterationNumbers == [i \in 1..Len(iterations) |-> iterations[i].iteration_number]

\* C21 as stated: in every reachable tracker state the iteration numbers are
\* positive and strictly increasing along the iterations list, whatever
\* start_iteration calls were made.  (Spec)
C21_Original ==
    /\ \A i \in 1..Len(iterations) : iterations[i].iteration_number > 0
    /\ StrictlyIncreasing(IterationNumbers)

\* C21 as amended: the tracker stores the number each start_iteration call is
\* given, unchecked and in call order; the numbers along the iterations list
\* are strictly increasing exactly when the numbers passed were.  (Spec)
C21_NumbersAsPassed ==
    /\ IterationNumbers = startCalls
    /\ StrictlyIncreasing(IterationNumbers) <=> StrictlyIncreasing(startCalls)

\* Two iterations started with numbers out of order.
C21_Witness ==
    /\ lastOp = "start_iteration"
    /\ IterationNumbers = <<2, 1>>
    /\ current_iteration = Some(2)

\* The step a reference denotes after the transition.
AtNext(r) == iterations'[r[1]].steps[r[2]]

\* C22 as stated: once a step's end_time has been set, no later complete_step
\* or block_step call on it changes its end_time, blocked flag or
\* blocking_issues.  (Spec)
C22_Original ==
    [][\A r \in StepRefs :
           At(r).end_time # None
               => /\ AtNext(r).end_time = At(r).end_time
                  /\ AtNext(r).blocked = At(r).blocked
                  /\ AtNext(r).blocking_issues = At(r).blocking_issues]_vars

\* C22 as amended: a step is started once (its name, agent, is_revision and
\* start_time never change) and a blocked flag once set is never cleared, but
\* complete_step and block_step act unconditionally, also on a step whose
\* end_time is already set: every complete_step call sets the end_time of its
\* step to the current time and leaves blocked and blocking_issues alone, and
\* every block_step call sets blocked, replaces blocking_issues and sets
\* end_time to the current time.  (Spec)
C22_StepTransitions ==
    [][/\ \A r \in StepRefs :
              /\ AtNext(r).name = At(r).name
              /\ AtNext(r).agent = At(r).agent
              /\ AtNext(r).is_revision = At(r).is_revision
              /\ AtNext(r).start_time = At(r).start_time
              /\ At(r).blocked => AtNext(r).blocked
       /\ (lastOp' = "complete_step" /\ calls' # calls) =>
              /\ \E r \in StepRefs :
                     /\ AtNext(r) = [At(r) EXCEPT !.end_time = Some(now)]
                     /\ \A q \in StepRefs \ {r} : AtNext(q) = At(q)
       /\ (lastOp' = "block_step" /\ calls' # calls) =>
              /\ \E r \in StepRefs, issues \in IssueLists :
                     /\ AtNext(r) = [At(r) EXCEPT !.blocked = TRUE,
                                                  !.blocking_issues = issues,
                                                  !.end_time = Some(now)]
                     /\ \A q \in StepRefs \ {r} : AtNext(q) = At(q)]_vars

\* complete_step has acted, at a later time, on a step block_step had already
\* given an end_time.
C22_Witness ==
    /\ lastOp = "complete_step"
    /\ \E r \in blockedRefs :
           /\ At(r).blocking_issues # <<>>
           /\ At(r).start_time = Some(0)
           /\ At(r).end_time = Some(1)

\* C23: in every state reachable through the tracker's methods every
\* iteration with stabilized = true has its end_time set, and a stabilized
\* flag that is true is never set back to false.  (Spec)
C23_StabilizedIsClosed ==
    /\ [](\A i \in 1..Len(iterations) :
              iterations[i].stabilized => iterations[i].end_time # None)
    /\ [][\A i \in 1..Len(iterations) :
              iterations[i].stabilized
                  => /\ i <= Len(iterations')
                     /\ iterations'[i].stabilized]_vars

\* An iteration stabilized some time after its start and then followed by a
\* new iteration.
C23_Witness ==
    /\ lastOp = "start_iteration"
    /\ Len(iterations) = 2
    /\ iterations[1].stabilized
    /\ iterations[1].end_time = Some(1)
    /\ iterations[1].start_time = Some(0)
    /\ ~iterations[2].stabilized

\* C24: complete_iteration sets only the current iteration's end_time and
\* leaves current_iteration pointing at the same iteration; a
\* record_showrunner_decision or mark_stabilized issued after it and before
\* the next start_iteration modifies that same, already completed iteration.
\* (Spec)
C24_CompletedStaysCurrent ==
    [][/\ (lastOp' = "complete_iteration" /\ calls' # calls
             /\ current_iteration # None) =>
              /\ current_iteration' = current_iteration
              /\ iterations' = [iterations EXCEPT
                     ![current_iteration[1]].end_time = Some(now)]
              /\ start_time' = start_time
       /\ (calls' # calls /\ current_iteration # None
             /\ iterations[current_iteration[1]].end_time # None) =>
              /\ lastOp' = "record_showrunner_decision" =>
                     /\ current_iteration' = current_iteration
                     /\ iterations'[current_iteration[1]].showrunner_decision # None
                     /\ iterations'[current_iteration[1]].end_time
                            = iterations[current_iteration[1]].end_time
              /\ lastOp' = "mark_stabilized" =>
                     /\ current_iteration' = current_iteration
                     /\ iterations'[current_iteration[1]].stabilized
                     /\ iterations'[current_iteration[1]].end_time = Some(now)]_vars

\* A decision recorded on the second iteration after complete_iteration had
\* closed it, the first iteration being still open.
C24_Witness ==
    /\ lastOp = "record_showrunner_decision"
    /\ current_iteration = Some(2)
    /\ iterations[2].end_time # None
    /\ ~iterations[2].stabilized
    /\ iterations[2].showrunner_decision # None
    /\ iterations[1].end_time = None

\* C25: record_showrunner_decision sets showrunner_decision on the current
\* iteration only, leaving every other iteration's decision and all steps
\* unchanged; with no current iteration it raises nothing and changes no
\* state.  (Spec)
C25_DecisionOnCurrentOnly ==
    [][(lastOp' = "record_showrunner_decision" /\ calls' # calls) =>
           /\ raised' = "none"
           /\ current_iteration' = current_iteration
           /\ start_time' = start_time
           /\ IF current_iteration = None
              THEN iterations' = iterations
              ELSE \E d \in Decisions :
                       iterations' = [iterations EXCEPT
                           ![current_iteration[1]].showrunner_decision = Some(d)]]_vars

\* A decision recorded on the second iteration; the first, which holds a
\* step, has none.
C25_Witness ==
    /\ lastOp = "record_showrunner_decision"
    /\ Len(iterations) = 2
    /\ iterations[2].showrunner_decision = Some("Revising step 2")
    /\ iterations[1].showrunner_decision = None
    /\ iterations[1].steps # <<>>

\* What makes a step, or an iteration, the same object across a transition:
\* the fields set when it is created.
StepIdentity(s) == <<s.name, s.agent, s.is_revision, s.start_time>>
IterationIdentity(it) == <<it.iteration_number, it.start_time>>

\* C26: across every tracker operation the iterations list and each
\* iteration's steps list only grow by appending at the end (nothing is
\* removed, replaced or reordered); start_step appends exactly one step to the
\* current iteration and none to any other.  (Spec)
C26_AppendOnly ==
    [][/\ Len(iterations') \in {Len(iterations), Len(iterations) + 1}
       /\ \A i \in 1..Len(iterations) :
              /\ IterationIdentity(iterations'[i]) = IterationIdentity(iterations[i])
              /\ Len(iterations'[i].steps) >= Len(iterations[i].steps)
              /\ \A j \in 1..Len(iterations[i].steps) :
                     StepIdentity(iterations'[i].steps[j])
                         = StepIdentity(iterations[i].steps[j])
       /\ (lastOp' = "start_step" /\ calls' # calls /\ current_iteration # None) =>
              LET c == current_iteration[1]
              IN /\ Len(iterations') = Len(iterations)
                 /\ SubSeq(iterations'[c].steps, 1, Len(iterations[c].steps))
                        = iterations[c].steps
                 /\ Len(iterations'[c].steps) = Len(iterations[c].steps) + 1
                 /\ iterations'[c].steps[Len(iterations'[c].steps)].start_time
                        = Some(now)
                 /\ \A i \in 1..Len(iterations) :
                        i # c => iterations'[i] = iterations[i]]_vars

\* A first-pass step and, later, a revision step started in the same
\* iteration.
C26_Witness ==
    /\ lastOp = "start_step"
    /\ Len(iterations) = 1
    /\ Len(iterations[1].steps) = 2
    /\ ~iterations[1].steps[1].is_revision
    /\ iterations[1].steps[1].start_time = Some(0)
    /\ iterations[1].steps[2].is_revision
    /\ iterations[1].steps[2].start_time = Some(1)

\* C29: start_step succeeds whenever at least one start_iteration has been
\* performed, also after complete_iteration or mark_stabilized has closed
\* the current iteration, and appends the new step to that closed iteration,
\* which keeps its end_time and stabilized flag while gaining a running step.
\* (Spec)
C29_StartStepOnClosedIteration ==
    [][(lastOp' = "start_step" /\ calls' # calls /\ startCalls # <<>>) =>
           LET c == Len(iterations)
           IN /\ raised' = "none"
              /\ current_iteration' = Some(c)
              /\ Len(iterations'[c].steps) = Len(iterations[c].steps) + 1
              /\ status(iterations'[c].steps[Len(iterations'[c].steps)]) = "running"
              /\ iterations'[c].end_time = iterations[c].end_time
              /\ iterations'[c].stabilized = iterations[c].stabilized]_vars

\* A stabilized iteration that gained a running step after it was closed.
C29_Witness ==
    /\ lastOp = "start_step"
    /\ raised = "none"
    /\ Len(iterations) = 1
    /\ iterations[1].stabilized
    /\ iterations[1].end_time = Some(0)
    /\ Len(iterations[1].steps) = 1
    /\ iterations[1].steps[1].start_time = Some(1)
    /\ status(iterations[1].steps[1]) = "running"

\* Every precondition of the run dispatch passes.
PreconditionsPass(c) ==
    /\ ProjectExists(c)
    /\ LoopKnown(c)
    /\ WorkspaceExists(c)
    /\ IsStorySpark(c) => SeedPresent(c)

\* C28: within one run invocation the delegated loop execution is called
\* only after all preconditions have passed and at most once, never when a
\* precondition fails; its library calls are made in order, each at most
\* once, up to the one that raises, and when one raises the invocation ends
\* with exit code 1 without a second attempt.  (SpecRun)
C28_ExecutedOnce ==
    run # None =>
        LET c == cli[1]
            r == run[1]
        IN /\ r.execute_calls <= 1
           /\ r.execute_calls = 1 <=> (Entered(c) /\ PreconditionsPass(c))
           /\ r.execute_calls = 1 =>
                  r.checks = (IF IsStorySpark(c) THEN CheckOrder
                              ELSE SubSeq(CheckOrder, 1, 3))
           /\ IsPrefix(r.delegated, ExecStages)
           /\ r.execute_calls = 0 => r.delegated = <<>>
           /\ (r.execute_calls = 1 /\ ~ExecRaises(c)) =>
                  r.delegated = ExecStages
           /\ (r.execute_calls = 1 /\ ExecRaises(c)) =>
                  /\ r.exit_code = 1
                  /\ r.message = "Error executing loop"
                  /\ r.delegated[Len(r.delegated)] = c.raises_at

\* story-spark with a seed, every check passed, and Orchestrator() raising
\* before orchestrator.execute_loop is reached.
C28_Witness ==
    /\ run # None
    /\ cli[1].raises_at = "Orchestrator"
    /\ run[1].checks = CheckOrder
    /\ run[1].execute_calls = 1
    /\ run[1].delegated = SubSeq(ExecStages, 1, 3)
    /\ run[1].config_seed = None
    /\ run[1].exit_code = 1

\* C30: for story-spark a source providing an empty value provides none: an
\* empty environment variable falls through to the seed file, and with no
\* non-empty environment variable a seed file that is empty or
\* whitespace-only yields no seed, so the run ends as missing its seed (exit
\* code 1, delegated execution not called).  (SpecRun)
C30_EmptySeedIsNoSeed ==
    (/\ run # None
     /\ Entered(cli[1])
     /\ ProjectExists(cli[1])
     /\ WorkspaceExists(cli[1])
     /\ IsStorySpark(cli[1])
     /\ cli[1].env_seed \in {None, Some(<<>>)}) =>
        LET c == cli[1]
            r == run[1]
        IN /\ (c.seed_file # None /\ strip(c.seed_file[1]) # <<>>) =>
                  /\ r.story_seed = Some(strip(c.seed_file[1]))
                  /\ r.execute_calls = 1
           /\ (c.seed_file = None \/ strip(c.seed_file[1]) = <<>>) =>
                  /\ r.exit_code = 1
                  /\ r.message = "Story Spark requires a seed"
                  /\ r.story_seed = None
                  /\ r.execute_calls = 0
                  /\ r.delegated = <<>>

\* The environment variable is set but empty and the seed file holds only
\* whitespace.
C30_Witness ==
    /\ run # None
    /\ cli[1].seed_flag = None
    /\ cli[1].env_seed = Some(<<>>)
    /\ cli[1].seed_file = Some(<<" ">>)
    /\ run[1].checks = CheckOrder
    /\ run[1].exit_code = 1
    /\ run[1].execute_calls = 0

\* C27: validate_loop_name tries the normalised id match first and the
\* case-insensitive display-name match on the raw input only as a fallback:
\* an input whose normalised form is the id of one loop resolves to that
\* loop even when it is the display name of another, and when several
\* display names match, the first in catalog order is returned.
\* (SpecCatalog)
C27_IdMatchFirst ==
    name_out # None =>
        LET loops == catalog[1]
            n == name_in[1]
            normalized == replace_space_hyphen(strip(lower(n)))
            byId == {k \in 1..Len(loops) : loops[k].id = normalized}
            byName == {k \in 1..Len(loops) :
                           SameIgnoringCase(n, loops[k].display_name)}
        IN /\ byId # {} => name_out[1].returned = Some(normalized)
           /\ (byId = {} /\ byName # {}) =>
                  \E k \in byName :
                      /\ \A m \in byName : k <= m
                      /\ name_out[1].returned = Some(loops[k].id)

\* "T" is the display name of loop "s" and, once normalised, the id of loop
\* "t": it resolves to "t".
C27_Witness ==
    /\ catalog = Some(CollidingLoops)
    /\ name_in = Some(<<"T">>)
    /\ name_out # None
    /\ name_out[1].returned = Some(<<"t">>)

=============================================================================
